---- MODULE Spec2Model ----
(***************************************************************************)
(* Chelsea Street Bridge lift dashboard (src/streamlit_app.py).            *)
(*                                                                         *)
(* The script runs top to bottom once per page run:                        *)
(*   sim      load_simulated_lift_data()                  lines 12-23      *)
(*   next     the "next predicted lift" banner            lines 25-40      *)
(*   load     load_data()                                 lines 45-67      *)
(*   sidebar  the four sidebar widgets                    lines 72-84      *)
(*   filter   filtered_df                                 lines 89-98      *)
(*   kpi      the three metrics                           lines 103-107    *)
(*   tabs     the five chart tabs                         lines 112-152    *)
(* pc names the stage the run is about to execute.                         *)
(*                                                                         *)
(* A time stamp [ts] counts whole hours from a Monday 00:00; a Timedelta is *)
(* the pair [s, ns] with 0 <= ns < 10^9 (value = s seconds + ns            *)
(* nanoseconds), so that Duration_Minutes = value / 60 s is kept exactly.  *)
(* Texts are sequences of one-character strings.                           *)
(***************************************************************************)
EXTENDS Integers, Sequences, FiniteSets, TLC

VARIABLES pc, raised, hhmm, sim_file, now, sim_df, shown, next_lift,
          xlsx, ret, widgets, filtered_df, metrics, tabs

vars == <<pc, raised, hhmm, sim_file, now, sim_df, shown, next_lift,
          xlsx, ret, widgets, filtered_df, metrics, tabs>>

\* ------------------------------------------------------------------ bounds
MaxRows == 2
MaxLen == 3
DashRows == 2
SimRows == 2

\* ----------------------------------------------------------------- helpers
\* a missing value: an empty cell (NaN), a time that did not parse (NaT)
NaN == [kind |-> "nan"]
NaT == [nat |-> TRUE]
Billion == 1000000000

Digits == {"0", "1", "2", "3", "4", "5", "6", "7", "8", "9"}

DigitVal(c) ==
    CASE c = "0" -> 0 [] c = "1" -> 1 [] c = "2" -> 2 [] c = "3" -> 3
      [] c = "4" -> 4 [] c = "5" -> 5 [] c = "6" -> 6 [] c = "7" -> 7
      [] c = "8" -> 8 [] c = "9" -> 9

DigitChar(d) ==
    CASE d = 0 -> "0" [] d = 1 -> "1" [] d = 2 -> "2" [] d = 3 -> "3"
      [] d = 4 -> "4" [] d = 5 -> "5" [] d = 6 -> "6" [] d = 7 -> "7"
      [] d = 8 -> "8" [] d = 9 -> "9"

RECURSIVE IntOf(_)
\* int("".join(number)) for a non-empty run of digits
IntOf(ds) ==
    IF ds = <<>> THEN 0
    ELSE 10 * IntOf(SubSeq(ds, 1, Len(ds) - 1)) + DigitVal(ds[Len(ds)])

RECURSIVE StrOfNat(_)
\* str(n) for an int n >= 0
StrOfNat(n) ==
    IF n < 10 THEN <<DigitChar(n)>>
    ELSE Append(StrOfNat(n \div 10), DigitChar(n % 10))

\* two digits, zero padded, as datetime.time.__str__ prints a field
Pad2(n) == <<DigitChar(n \div 10), DigitChar(n % 10)>>

RECURSIVE SelectIdx(_, _, _)
\* the positions i..n, in order, with keep[i] true
SelectIdx(n, keep, i) ==
    IF i > n THEN <<>>
    ELSE IF keep[i] THEN <<i>> \o SelectIdx(n, keep, i + 1)
         ELSE SelectIdx(n, keep, i + 1)

UpperCase == <<"A", "B", "C", "D", "E", "F", "G", "H", "I", "J", "K", "L", "M",
               "N", "O", "P", "Q", "R", "S", "T", "U", "V", "W", "X", "Y", "Z">>
LowerCase == <<"a", "b", "c", "d", "e", "f", "g", "h", "i", "j", "k", "l", "m",
               "n", "o", "p", "q", "r", "s", "t", "u", "v", "w", "x", "y", "z">>

Range(s) == {s[i] : i \in DOMAIN s}

\* ------------------------------------------------ Series.astype(str), line 59
\* A Duration cell as read_excel delivers it: NaN (an empty cell), a text
\* cell, an integer cell, a float cell (whole part, digits after the point)
\* or a time-formatted cell (datetime.time).
AsStr(cell) ==
    CASE cell.kind = "nan"     -> <<"n", "a", "n">>
      [] cell.kind = "str"     -> cell.text
      [] cell.kind = "int"     -> StrOfNat(cell.n)
      [] cell.kind = "float"   -> StrOfNat(cell.whole) \o <<".">> \o cell.frac
      [] cell.kind = "time"    -> Pad2(cell.h) \o <<":">> \o Pad2(cell.m)
                                    \o <<":">> \o Pad2(cell.s)

\* ------------------------------------- pd.to_timedelta(errors='coerce'), line 60
nat_strings == { <<"N", "a", "T">>, <<"n", "a", "t">>, <<"N", "A", "T">>,
                 <<"n", "a", "n">>, <<"N", "a", "N">>, <<"N", "A", "N">> }

ParseInit ==
    [neg |-> FALSE, have_dot |-> FALSE, have_value |-> FALSE,
     have_hhmmss |-> FALSE, cu |-> "none", rs |-> 0, rns |-> 0,
     number |-> <<>>, frac |-> <<>>, unit |-> <<>>, err |-> FALSE]

Signed(st, r) == IF st.neg THEN -r ELSE r

\* UnitSeconds with the hour taken for a minute
UnitSecondsHourAsMinute(cu) == CASE cu = "h" -> 60 [] cu = "m" -> 60 [] OTHER -> 1

\* the unit after one more ":" and its length in seconds
NextUnit(cu) == CASE cu = "none" -> "h" [] cu = "h" -> "m" [] OTHER -> "s"
UnitSeconds(cu) == CASE cu = "h" -> 3600 [] cu = "m" -> 60 [] OTHER -> 1

\* One character of parse_timedelta_string's loop. A character that is no
\* digit, sign, blank, comma, colon or point is collected as a unit
\* abbreviation; "x" stands for a letter of no abbreviation, so every
\* timedelta_from_spec call on a collected unit raises.
ParseChar(st, c) ==
    IF st.err THEN st
    ELSE IF c \in {" ", ",", "+"} THEN st
    ELSE IF c = "-" THEN
        IF st.neg \/ st.have_value \/ st.have_hhmmss
        THEN [st EXCEPT !.err = TRUE]
        ELSE [st EXCEPT !.neg = TRUE]
    ELSE IF c \in Digits THEN
        IF st.have_dot THEN
            IF st.unit # <<>>
            THEN [st EXCEPT !.number = Append(@, c), !.have_dot = FALSE]
            ELSE [st EXCEPT !.frac = Append(@, c)]
        ELSE IF st.unit = <<>> THEN [st EXCEPT !.number = Append(@, c)]
        ELSE [st EXCEPT !.err = TRUE]
    ELSE IF c = ":" THEN
        LET s1 == IF st.have_value THEN [st EXCEPT !.neg = FALSE] ELSE st
        IN  IF s1.number = <<>> THEN [s1 EXCEPT !.err = TRUE]
            ELSE LET u == NextUnit(s1.cu)
                 IN  [s1 EXCEPT !.cu = u,
                                !.rs = @ + Signed(s1, IntOf(s1.number) * UnitSeconds(u)),
                                !.have_hhmmss = TRUE,
                                !.unit = <<>>, !.number = <<>>]
    ELSE IF c = "." THEN
        IF st.number # <<>> /\ st.cu # "none" THEN
            IF st.cu # "m" THEN [st EXCEPT !.err = TRUE]
            ELSE [st EXCEPT !.rs = @ + Signed(st, IntOf(st.number)),
                            !.have_value = TRUE, !.have_dot = TRUE,
                            !.unit = <<>>, !.number = <<>>, !.frac = <<>>]
        ELSE [st EXCEPT !.have_dot = TRUE]
    ELSE [st EXCEPT !.unit = Append(@, c), !.have_value = TRUE,
                    !.have_dot = FALSE]

RECURSIVE ParseLoop(_, _, _)
ParseLoop(st, ts, i) ==
    IF i > Len(ts) THEN st ELSE ParseLoop(ParseChar(st, ts[i]), ts, i + 1)

\* nanoseconds of the digits after the point of hh:mm:ss.fffffffff
FracNanos(frac) ==
    LET n == Len(frac)
    IN  IF n > 9 THEN IntOf(SubSeq(frac, 1, 9))
        ELSE IntOf(frac) * 10 ^ (9 - n)

\* What follows the loop. hm is the build's answer to a text that ends after
\* "hh:mm": pandas releases differ (minutes, or ValueError).
ParseEnd(st, hm) ==
    IF st.err THEN st
    ELSE IF st.have_dot /\ st.unit # <<>> THEN [st EXCEPT !.err = TRUE]
    ELSE IF st.have_dot THEN
        IF (st.number # <<>> \/ st.frac # <<>>) /\ st.unit = <<>> /\ st.cu = "none"
        THEN [st EXCEPT !.err = TRUE]
        ELSE IF st.frac = <<>> THEN [st EXCEPT !.err = TRUE]
        ELSE [st EXCEPT !.rns = @ + Signed(st, FracNanos(st.frac))]
    ELSE IF st.cu # "none" THEN
        IF st.number = <<>> THEN [st EXCEPT !.err = TRUE]
        ELSE IF st.cu = "h" THEN
            IF hm THEN [st EXCEPT !.rs = @ + Signed(st, IntOf(st.number) * 60)]
            ELSE [st EXCEPT !.err = TRUE]
        ELSE [st EXCEPT !.rs = @ + Signed(st, IntOf(st.number))]
    ELSE IF st.unit # <<>> THEN [st EXCEPT !.err = TRUE]
    ELSE IF st.have_value THEN [st EXCEPT !.err = TRUE]
    ELSE IF st.number # <<>> THEN [st EXCEPT !.rns = @ + Signed(st, IntOf(st.number))]
    ELSE st

\* seconds and nanoseconds brought to 0 <= ns < 10^9
Normalize(s, ns) == [s |-> s + (ns \div Billion), ns |-> ns % Billion]

\* pd.to_timedelta(text, errors='coerce'): a Timedelta, or NaT
to_timedelta(ts, hm) ==
    IF ts = <<>> \/ ts \in nat_strings THEN NaT
    ELSE LET st == ParseEnd(ParseLoop(ParseInit, ts, 1), hm)
         IN  IF st.err THEN NaT ELSE Normalize(st.rs, st.rns)

\* ------------------------------------ pd.to_datetime(errors='coerce'), 16, 56-58
\* A time cell as the reader delivers it: NaN (empty), a datetime, or a text
\* no datetime format matches.
to_datetime(cell) ==
    IF cell.kind = "datetime" THEN [ts |-> cell.ts] ELSE NaT

\* Series.dt.hour, .dt.date, .dt.day_name() of a time stamp
HourOf(t) == t.ts % 24
DateOf(t) == t.ts \div 24
Weekdays == <<"Monday", "Tuesday", "Wednesday", "Thursday", "Friday",
              "Saturday", "Sunday">>
DayName(t) == Weekdays[(DateOf(t) % 7) + 1]

\* ------------------------------------------------------ Timedelta arithmetic
\* Series.dt.total_seconds() / 60, kept as the Timedelta it is computed from
Duration_Minutes(td) == IF td = NaT THEN NaN ELSE td

TdLeq(a, b) == a.s < b.s \/ (a.s = b.s /\ a.ns <= b.ns)
\* Duration_Minutes >= m and <= m for a whole number of minutes m
MinutesGeq(td, m) == td.s >= 60 * m
MinutesLeq(td, m) == td.s < 60 * m \/ (td.s = 60 * m /\ td.ns = 0)
\* int(Duration_Minutes): the float cut towards zero
IntMinutes(td) ==
    IF td.s >= 0 THEN td.s \div 60
    ELSE IF td.ns = 0 THEN -((-td.s) \div 60)
    ELSE -((-td.s - 1) \div 60)

RECURSIVE TdSum(_)
TdSum(tds) ==
    IF tds = <<>> THEN [s |-> 0, ns |-> 0]
    ELSE LET r == TdSum(Tail(tds))
         IN  Normalize(tds[1].s + r.s, tds[1].ns + r.ns)

\* Series.min() and .max(): NaN for a column of no rows
SeriesMin(tds) ==
    IF tds = <<>> THEN NaN
    ELSE CHOOSE a \in Range(tds) : \A b \in Range(tds) : TdLeq(a, b)
SeriesMax(tds) ==
    IF tds = <<>> THEN NaN
    ELSE CHOOSE a \in Range(tds) : \A b \in Range(tds) : TdLeq(b, a)

\* int(x): the value, or the exception int(nan) raises
PyInt(x) ==
    IF x = NaN THEN [exc |-> "ValueError"] ELSE [val |-> IntMinutes(x)]
Raises(x) == "exc" \in DOMAIN x

\* ---------------------------------------------------- load_data, lines 46-65
UpperChar(c) ==
    IF \E i \in DOMAIN LowerCase : LowerCase[i] = c
    THEN UpperCase[CHOOSE i \in DOMAIN LowerCase : LowerCase[i] = c]
    ELSE c

\* ParseRow with Direction folded to upper case
ParseRowUpperDirection(r, i, hm) ==
    [idx |-> i,
     ETA |-> to_datetime(r.ETA),
     Start_Time |-> to_datetime(r.Start_Time),
     End_Time |-> to_datetime(r.End_Time),
     Duration |-> AsStr(r.Duration),
     Vessel |-> r.Vessel,
     Direction |-> IF r.Direction.kind = "str"
                   THEN [kind |-> "str",
                         text |-> [k \in DOMAIN r.Direction.text |->
                                     UpperChar(r.Direction.text[k])]]
                   ELSE r.Direction,
     Duration_Minutes |-> Duration_Minutes(to_timedelta(AsStr(r.Duration), hm))]

\* lines 56-60: the parsed columns of one raw row; idx is the frame's index
ParseRow(r, i, hm) ==
    [idx |-> i,
     ETA |-> to_datetime(r.ETA),
     Start_Time |-> to_datetime(r.Start_Time),
     End_Time |-> to_datetime(r.End_Time),
     Duration |-> AsStr(r.Duration),
     Vessel |-> r.Vessel,
     Direction |-> r.Direction,
     Duration_Minutes |-> Duration_Minutes(to_timedelta(AsStr(r.Duration), hm))]

\* Kept with End_Time added to the subset
KeptWithEndTime(p) ==
    /\ p.Start_Time # NaT
    /\ p.End_Time # NaT
    /\ p.Duration_Minutes # NaN
    /\ p.Direction # NaN
    /\ p.ETA # NaT

\* line 61: dropna(subset=['Start_Time', 'Duration_Minutes', 'Direction', 'ETA'])
Kept(p) ==
    /\ p.Start_Time # NaT
    /\ p.Duration_Minutes # NaN
    /\ p.Direction # NaN
    /\ p.ETA # NaT

\* lines 62-64: Hour, Weekday, Date
Derive(p) ==
    [idx |-> p.idx, ETA |-> p.ETA, Start_Time |-> p.Start_Time,
     End_Time |-> p.End_Time, Duration |-> p.Duration, Vessel |-> p.Vessel,
     Direction |-> p.Direction, Duration_Minutes |-> p.Duration_Minutes,
     Hour |-> HourOf(p.Start_Time), Weekday |-> DayName(p.Start_Time),
     Date |-> DateOf(p.Start_Time)]

\* load_data with the kept rows in reverse order
load_data_reversed(rows, hm) ==
    LET parsed == [i \in DOMAIN rows |-> ParseRow(rows[i], i, hm)]
        keep == [i \in DOMAIN rows |-> Kept(parsed[i])]
        ix == SelectIdx(Len(rows), keep, 1)
    IN  [k \in DOMAIN ix |-> Derive(parsed[ix[Len(ix) + 1 - k]])]

load_data(rows, hm) ==
    LET parsed == [i \in DOMAIN rows |-> ParseRow(rows[i], i, hm)]
        keep == [i \in DOMAIN rows |-> Kept(parsed[i])]
        ix == SelectIdx(Len(rows), keep, 1)
    IN  [k \in DOMAIN ix |-> Derive(parsed[ix[k]])]

\* the frame line 67 binds: what load_data returns
df == ret.df

\* ------------------------------------ load_simulated_lift_data, lines 13-21
None == [none |-> TRUE]

\* lines 16-17 for one CSV row
SimParse(r, i) ==
    [idx |-> i, datetime |-> to_datetime(r.datetime),
     Lift_Duration |-> r.Lift_Duration]

SimKept(p) == p.datetime # NaT /\ p.Lift_Duration # NaN

SimClean(rows) ==
    LET parsed == [i \in DOMAIN rows |-> SimParse(rows[i], i)]
        keep == [i \in DOMAIN rows |-> SimKept(parsed[i])]
        ix == SelectIdx(Len(rows), keep, 1)
    IN  [k \in DOMAIN ix |-> parsed[ix[k]]]

IsSortedByDatetime(s) ==
    \A i, j \in DOMAIN s : i < j => s[i].datetime.ts <= s[j].datetime.ts

\* line 18, sort_values(by='datetime'): the default sort is not stable, so
\* rows of equal datetime may come out in any order
SortedByDatetime(rows) ==
    { s \in [DOMAIN rows -> Range(rows)] :
        /\ \A r \in Range(rows) : \E i \in DOMAIN s : s[i] = r
        /\ \A i, j \in DOMAIN s : i # j => s[i].idx # s[j].idx
        /\ IsSortedByDatetime(s) }

\* next_predicted with >= for >
next_predicted_inclusive(sdf, t) == SelectSeq(sdf, LAMBDA r : r.datetime.ts >= t.ts)

\* lines 25-28: the rows after now, and the one shown
next_predicted(sdf, t) == SelectSeq(sdf, LAMBDA r : r.datetime.ts > t.ts)

\* ---------------------------------------------------- sidebar, lines 72-84
RECURSIVE Unique(_)
\* Series.unique(): the distinct values in order of first appearance
Unique(vals) ==
    IF vals = <<>> THEN <<>>
    ELSE LET u == Unique(SubSeq(vals, 1, Len(vals) - 1))
             v == vals[Len(vals)]
         IN  IF v \in Range(u) THEN u ELSE Append(u, v)

Column(d, f) == [i \in DOMAIN d |-> d[i][f]]

MinStart(d) == CHOOSE a \in Range(Column(d, "Start_Time")) :
                   \A b \in Range(Column(d, "Start_Time")) : a.ts <= b.ts
MaxStart(d) == CHOOSE a \in Range(Column(d, "Start_Time")) :
                   \A b \in Range(Column(d, "Start_Time")) : b.ts <= a.ts

\* lines 75-77
default_range(d, today) ==
    IF d # <<>> THEN <<DateOf(MinStart(d)), DateOf(MaxStart(d))>>
    ELSE <<today, today>>

\* min_dur without the "if not df.empty" guard
min_dur_unguarded(d) == PyInt(SeriesMin(Column(d, "Duration_Minutes")))

\* lines 82-83
min_dur(d) ==
    IF d # <<>> THEN PyInt(SeriesMin(Column(d, "Duration_Minutes"))) ELSE [val |-> 0]
max_dur(d) ==
    IF d # <<>> THEN PyInt(SeriesMax(Column(d, "Duration_Minutes"))) ELSE [val |-> 60]

\* what the widgets return on a first run, nothing touched
DefaultWidgets(d, today) ==
    [directions |-> Range(Unique(Column(d, "Direction"))),
     date_range |-> default_range(d, today),
     vessel_search |-> <<>>,
     duration_range |-> <<min_dur(d).val, max_dur(d).val>>]

\* ------------------------------------------------- filtered_df, lines 89-98
LowerChar(c) ==
    IF \E i \in DOMAIN UpperCase : UpperCase[i] = c
    THEN LowerCase[CHOOSE i \in DOMAIN UpperCase : UpperCase[i] = c]
    ELSE c
Lower(t) == [i \in DOMAIN t |-> LowerChar(t[i])]

\* Series.str.contains(pat, case=False, na=False) for one cell
Contains(cell, pat) ==
    /\ cell.kind = "str"
    /\ \E k \in 0..(Len(cell.text) - Len(pat)) :
           SubSeq(Lower(cell.text), k + 1, k + Len(pat)) = Lower(pat)

\* lines 90-94 for one record
Passes(r, w) ==
    /\ r.Direction \in w.directions
    /\ r.Date >= w.date_range[1]
    /\ r.Date <= w.date_range[2]
    /\ MinutesGeq(r.Duration_Minutes, w.duration_range[1])
    /\ MinutesLeq(r.Duration_Minutes, w.duration_range[2])

\* read_excel gives a column with rows and no value in any of them the dtype
\* float64, on which the .str accessor of line 98 raises AttributeError
VesselIsFloat(rows) ==
    rows # <<>> /\ \A i \in DOMAIN rows : rows[i].Vessel.kind = "nan"

\* --------------------------------------------------------- KPIs, lines 103-107
\* A metric's value: a count, a number (minutes / per, rounding for display
\* left out) or a text.
Count(n) == [kind |-> "count", n |-> n]
Number(td, per) == [kind |-> "number", minutes |-> td, per |-> per]
Text(t) == [kind |-> "text", text |-> t]

col1(f) == Count(Len(f))
col2(f) ==
    IF Len(f) > 0 THEN Number(TdSum(Column(f, "Duration_Minutes")), Len(f))
    ELSE Text("N/A")
col3(f) == Number(TdSum(Column(f, "Duration_Minutes")), 60)

\* --------------------------------------------------------- tabs, lines 120-152
weekday_counts(f) ==
    [i \in DOMAIN Weekdays |-> Len(SelectSeq(f, LAMBDA r : r.Weekday = Weekdays[i]))]

\* line 138, value_counts(): one group per distinct Direction value
dir_counts(f) ==
    [d \in Range(Column(f, "Direction")) |->
        Len(SelectSeq(f, LAMBDA r : r.Direction = d))]

RECURSIVE SortedDates(_)
SortedDates(ds) ==
    IF ds = {} THEN <<>>
    ELSE LET m == CHOOSE a \in ds : \A b \in ds : a <= b
         IN  <<m>> \o SortedDates(ds \ {m})

\* line 150, groupby('Date').sum().cumsum()
trend_data(f) ==
    LET ds == SortedDates(Range(Column(f, "Date")))
    IN  [k \in DOMAIN ds |->
          [Date |-> ds[k],
           Duration_Minutes |->
             TdSum(Column(SelectSeq(f, LAMBDA r : r.Date <= ds[k]),
                          "Duration_Minutes"))]]

Chart(f, n) ==
    CASE n = 1 -> [kind |-> "chart", weekday_counts |-> weekday_counts(f)]
      [] n = 2 -> [kind |-> "chart", x |-> Column(f, "Duration_Minutes")]
      [] n = 3 -> [kind |-> "chart", dir_counts |-> dir_counts(f)]
      [] n = 4 -> [kind |-> "chart",
                   points |-> [i \in DOMAIN f |->
                                 <<f[i].ETA, f[i].Start_Time, f[i].Direction>>]]
      [] n = 5 -> [kind |-> "chart", trend_data |-> trend_data(f)]

Info == [kind |-> "info", text |-> "No data available for selected filters."]
Blank == [kind |-> "blank"]

\* what one "with tabN:" block leaves in its tab
Tab(f, n) ==
    IF f # <<>> THEN Chart(f, n)
    ELSE IF n = 1 THEN Info
    ELSE Blank

\* ------------------------------------------------------------------ inputs
StrCell(t) == [kind |-> "str", text |-> t]
IntCell(n) == [kind |-> "int", n |-> n]
FloatCell(w, f) == [kind |-> "float", whole |-> w, frac |-> f]
TimeCell(h, m, sec) == [kind |-> "time", h |-> h, m |-> m, s |-> sec]
At(t) == [kind |-> "datetime", ts |-> t]

Row(eta, start, end, dur, vessel, dir) ==
    [ETA |-> eta, Start_Time |-> start, End_Time |-> end, Duration |-> dur,
     Vessel |-> vessel, Direction |-> dir]

SeqsUpTo(S, n) == UNION {[1..k -> S] : k \in 0..n}

Tug == StrCell(<<"T", "u", "g", " ", "A">>)
DirIN == StrCell(<<"I", "N">>)
DirIn == StrCell(<<"i", "n">>)
DirOUT == StrCell(<<"O", "U", "T">>)
Garbage == StrCell(<<"x">>)

\* Duration texts: every text of at most MaxLen characters over a small
\* alphabet, and the texts [-]h:mm:ss and [-]hh:mm:ss over a few field values
ShortAlphabet == {"0", "9", ":", ".", "x"}
HourTexts == {<<"0">>, <<"1">>, <<"0", "0">>, <<"0", "1">>, <<"1", "2">>}
FieldTexts == {<<"0", "0">>, <<"1", "2">>, <<"3", "0">>, <<"4", "5">>}
HmsTexts ==
    {sg \o h \o <<":">> \o m \o <<":">> \o sec :
        sg \in {<<>>, <<"-">>}, h \in HourTexts, m \in FieldTexts, sec \in FieldTexts}

DurationCells ==
    {NaN, IntCell(0), IntCell(90), FloatCell(0, <<"5">>), TimeCell(0, 0, 45), TimeCell(1, 30, 0),
     TimeCell(0, 12, 30)}
      \cup {StrCell(t) : t \in SeqsUpTo(ShortAlphabet, MaxLen) \cup HmsTexts}

\* one-row sheets, every other field in order
DurationSheets ==
    {<<Row(At(8), At(9), At(10), d, Tug, DirIN)>> : d \in DurationCells}

\* sheets of at most MaxRows rows over every combination of field states
FieldRows ==
    {Row(eta, start, end, dur, Tug, dir) :
        eta \in {NaN, At(8)}, start \in {NaN, Garbage, At(9)},
        end \in {NaN, At(10)},
        dur \in {NaN, StrCell(<<"0", ":", "1", "2", ":", "3", "0">>), StrCell(<<"9", "x">>)},
        dir \in {NaN, DirIN}}
FieldSheets == SeqsUpTo(FieldRows, MaxRows)

\* ten-row sheets: each row in order but for a Duration cell that may be empty
EmptyDurationRow == Row(At(8), At(9), At(10), NaN, Tug, DirIN)
GoodRow == Row(At(8), At(9), At(10), StrCell(<<"1", ":", "3", "0", ":", "0", "0">>), Tug, DirOUT)
TenRowSheets == [1..10 -> {EmptyDurationRow, GoodRow}]

\* the sheets the dashboard is run on
DashRowSet ==
    {Row(At(8), At(st), NaN, TimeCell(0, m, sec), Tug, dir) :
        st \in {9, 40}, m \in {5, 12}, sec \in {0, 30}, dir \in {DirIN, DirIn}}
      \cup {Row(At(8), At(9), At(10), TimeCell(0, 12, 30), NaN, DirOUT),
            Row(At(8), At(9), At(10), NaN, NaN, DirIN)}
DashSheets == SeqsUpTo(DashRowSet, DashRows)

SimRow(dt, dur) == [datetime |-> dt, Lift_Duration |-> dur]
SimRowSet ==
    {SimRow(dt, dur) : dt \in {NaN, Garbage, At(20), At(30), At(40)},
                       dur \in {NaN, IntCell(12)}}
SimFiles ==
    {[ok |-> FALSE]} \cup {[ok |-> TRUE, rows |-> r] : r \in SeqsUpTo(SimRowSet, SimRows)}

\* ------------------------------------------------------------------ actions
\* lines 13-23
LoadSim ==
    /\ pc = "sim"
    /\ IF sim_file.ok
       THEN /\ sim_df' \in SortedByDatetime(SimClean(sim_file.rows))
            /\ shown' = shown
       ELSE /\ sim_df' = <<>>
            /\ shown' = Append(shown, "error")
    /\ pc' = "next"
    /\ UNCHANGED <<raised, hhmm, sim_file, now, next_lift, xlsx, ret, widgets,
                   filtered_df, metrics, tabs>>

\* lines 25-40
ShowNext ==
    /\ pc = "next"
    /\ IF sim_df # <<>>
       THEN IF next_predicted(sim_df, now) # <<>>
            THEN /\ next_lift' = next_predicted(sim_df, now)[1]
                 /\ shown' = Append(shown, "success")
            ELSE /\ next_lift' = next_lift
                 /\ shown' = Append(shown, "info")
       ELSE UNCHANGED <<next_lift, shown>>
    /\ pc' = "load"
    /\ UNCHANGED <<raised, hhmm, sim_file, now, sim_df, xlsx, ret, widgets,
                   filtered_df, metrics, tabs>>

\* line 67
LoadData ==
    /\ pc = "load"
    /\ ret' = [df |-> load_data(xlsx, hhmm)]
    /\ pc' = "sidebar"
    /\ UNCHANGED <<raised, hhmm, sim_file, now, sim_df, shown, next_lift, xlsx,
                   widgets, filtered_df, metrics, tabs>>

\* The values the widgets of lines 73-84 may return: the defaults, or a
\* choice of the user among the options each widget offers. A date range
\* whose second date is not picked yet comes back with one element.
WidgetChoices(d, today) ==
    LET w0 == DefaultWidgets(d, today)
        ends == {w0.duration_range[1], w0.duration_range[2]}
    IN  {[directions |-> ds, date_range |-> dr, vessel_search |-> vs,
          duration_range |-> du] :
            ds \in SUBSET w0.directions,
            dr \in {w0.date_range, <<w0.date_range[2]>>,
                    <<w0.date_range[2], w0.date_range[2]>>},
            vs \in {<<>>, <<"t", "u", "g">>},
            du \in {x \in ends \X ends : x[1] <= x[2]}}

\* lines 72-84
Sidebar ==
    /\ pc = "sidebar"
    /\ IF Raises(min_dur(df)) \/ Raises(max_dur(df))
       THEN /\ raised' = "ValueError"
            /\ pc' = "stopped"
            /\ UNCHANGED widgets
       ELSE /\ widgets' \in WidgetChoices(df, DateOf(now))
            /\ pc' = "filter"
            /\ UNCHANGED raised
    /\ UNCHANGED << hhmm, sim_file, now, sim_df, shown, next_lift, xlsx,
                   ret, filtered_df, metrics, tabs>>

\* lines 89-98; an exception ends the run
Filter ==
    /\ pc = "filter"
    /\ IF Len(widgets.date_range) < 2
       THEN /\ raised' = "IndexError"
            /\ pc' = "stopped"
            /\ UNCHANGED filtered_df
       ELSE IF widgets.vessel_search # <<>> /\ VesselIsFloat(xlsx)
       THEN /\ raised' = "AttributeError"
            /\ pc' = "stopped"
            /\ UNCHANGED filtered_df
       ELSE /\ filtered_df' =
                 LET base == SelectSeq(df, LAMBDA r : Passes(r, widgets))
                 IN  IF widgets.vessel_search # <<>>
                     THEN SelectSeq(base, LAMBDA r : Contains(r.Vessel, widgets.vessel_search))
                     ELSE base
            /\ pc' = "kpi"
            /\ UNCHANGED raised
    /\ UNCHANGED <<hhmm, sim_file, now, sim_df, shown, next_lift, xlsx, ret,
                   widgets, metrics, tabs>>

\* lines 103-107
Kpis ==
    /\ pc = "kpi"
    /\ metrics' = [col1 |-> col1(filtered_df), col2 |-> col2(filtered_df),
                   col3 |-> col3(filtered_df)]
    /\ pc' = "tabs"
    /\ UNCHANGED <<raised, hhmm, sim_file, now, sim_df, shown, next_lift, xlsx,
                   ret, widgets, filtered_df, tabs>>

\* lines 112-152
Tabs ==
    /\ pc = "tabs"
    /\ tabs' = [n \in 1..5 |-> Tab(filtered_df, n)]
    /\ pc' = "done"
    /\ UNCHANGED <<raised, hhmm, sim_file, now, sim_df, shown, next_lift, xlsx,
                   ret, widgets, filtered_df, metrics>>

\* ----------------------------------------------------------- specifications
Fresh ==
    /\ raised = "none"
    /\ sim_df = <<>>
    /\ shown = <<>>
    /\ next_lift = None
    /\ ret = [df |-> <<>>]
    /\ widgets = None
    /\ filtered_df = <<>>
    /\ metrics = None
    /\ tabs = None

\* a run of the whole script
Init ==
    /\ pc = "sim"
    /\ hhmm = TRUE
    /\ sim_file \in {[ok |-> FALSE], [ok |-> TRUE, rows |-> <<SimRow(At(30), IntCell(12))>>]}
    /\ now = [ts |-> 25]
    /\ xlsx \in DashSheets
    /\ Fresh

Next == LoadSim \/ ShowNext \/ LoadData \/ Sidebar \/ Filter \/ Kpis \/ Tabs

Spec == Init /\ [][Next]_vars

\* load_data on every sheet, from the point where line 67 calls it
InitLoad ==
    /\ pc = "load"
    /\ hhmm \in BOOLEAN
    /\ sim_file = [ok |-> TRUE, rows |-> <<>>]
    /\ now = [ts |-> 25]
    /\ xlsx \in DurationSheets \cup FieldSheets \cup TenRowSheets
    /\ Fresh

NextLoad == LoadData

SpecLoad == InitLoad /\ [][NextLoad]_vars

\* the prediction banner on every prediction file and clock
InitSim ==
    /\ pc = "sim"
    /\ hhmm = TRUE
    /\ sim_file \in SimFiles
    /\ now \in {[ts |-> t] : t \in {10, 30, 50}}
    /\ xlsx = <<>>
    /\ Fresh

NextSim == LoadSim \/ ShowNext \/ LoadData

SpecSim == InitSim /\ [][NextSim]_vars

\* ------------------------------------------------------------- properties
Loaded == pc \notin {"sim", "next", "load"}
Filtered == pc \in {"kpi", "tabs", "done"}

\* the raw row a record of the frame comes from
Raw(r) == xlsx[r.idx]
InFrame(i) == \E k \in DOMAIN df : df[k].idx = i
HasColon(t) == ":" \in Range(t)

\* what the sheet itself says of row i, before any parsing by load_data
TimePresent(cell) == cell.kind = "datetime"
DurationParses(cell) == to_timedelta(AsStr(cell), hhmm) # NaT
Acceptable(i) ==
    /\ TimePresent(xlsx[i].Start_Time)
    /\ TimePresent(xlsx[i].ETA)
    /\ xlsx[i].Direction.kind # "nan"
    /\ DurationParses(xlsx[i].Duration)

\* C1: every raw row whose Duration text holds no ":" is left out of the
\* frame load_data returns.
C1_NoColonRowsExcluded ==
    Loaded => \A i \in DOMAIN xlsx :
                 ~HasColon(AsStr(xlsx[i].Duration)) => ~InFrame(i)

\* C2: every record load_data returns has Duration_Minutes >= 0.
C2_DurationNonNegative ==
    Loaded => \A k \in DOMAIN df : df[k].Duration_Minutes.s >= 0

\* C3: a raw row is in the frame exactly if its Start_Time, ETA and Direction
\* are present and its duration text parses; a kept record carries the parsed
\* duration (never a default), and End_Time plays no part.
C3_KeptIffRequiredPresent ==
    Loaded =>
      /\ \A i \in DOMAIN xlsx : InFrame(i) <=> Acceptable(i)
      /\ \A k \in DOMAIN df :
            df[k].Duration_Minutes = to_timedelta(AsStr(Raw(df[k]).Duration), hhmm)

\* a kept row without End_Time beside a row dropped for its duration alone
C3_Witness ==
    /\ Loaded
    /\ \E k \in DOMAIN df : df[k].End_Time = NaT
    /\ \E i \in DOMAIN xlsx :
          /\ ~InFrame(i)
          /\ TimePresent(xlsx[i].Start_Time) /\ TimePresent(xlsx[i].ETA)
          /\ xlsx[i].Direction.kind # "nan"
          /\ xlsx[i].Duration.kind = "str"

EmptyDurations == {i \in DOMAIN xlsx : xlsx[i].Duration.kind = "nan"}

IsDigits(t) == \A i \in DOMAIN t : t[i] \in Digits
\* h:mm:ss or hh:mm:ss
WellFormedHms(t) ==
    \E hl \in {1, 2} :
      /\ Len(t) = hl + 6
      /\ IsDigits(SubSeq(t, 1, hl))
      /\ t[hl + 1] = ":"
      /\ IsDigits(SubSeq(t, hl + 2, hl + 3))
      /\ t[hl + 4] = ":"
      /\ IsDigits(SubSeq(t, hl + 5, hl + 6))
HmsSeconds(t) ==
    LET hl == Len(t) - 6
    IN  3600 * IntOf(SubSeq(t, 1, hl)) + 60 * IntOf(SubSeq(t, hl + 2, hl + 3))
          + IntOf(SubSeq(t, hl + 5, hl + 6))

\* C5: a kept row whose duration text is h:mm:ss or hh:mm:ss has
\* 60 * Duration_Minutes = 3600 h + 60 m + s seconds; "01:30:00" gives 90
\* minutes and "00:00:45" gives 45 seconds, 0.75 minutes.
C5_MinutesOfHms ==
    Loaded =>
      /\ \A i \in DOMAIN xlsx :
            (WellFormedHms(AsStr(xlsx[i].Duration)) /\ TimePresent(xlsx[i].Start_Time)
               /\ TimePresent(xlsx[i].ETA) /\ xlsx[i].Direction.kind # "nan")
            => InFrame(i)
      /\ \A k \in DOMAIN df :
            LET t == AsStr(Raw(df[k]).Duration)
            IN  /\ WellFormedHms(t) =>
                      df[k].Duration_Minutes = [s |-> HmsSeconds(t), ns |-> 0]
                /\ t = <<"0", "1", ":", "3", "0", ":", "0", "0">> =>
                      df[k].Duration_Minutes = [s |-> 90 * 60, ns |-> 0]
                /\ t = <<"0", "0", ":", "0", "0", ":", "4", "5">> =>
                      /\ df[k].Duration_Minutes.ns = 0
                      /\ 4 * df[k].Duration_Minutes.s = 3 * 60

C5_Witness ==
    /\ Loaded
    /\ \E k \in DOMAIN df :
          /\ AsStr(Raw(df[k]).Duration) = <<"0", "0", ":", "0", "0", ":", "4", "5">>
          /\ df[k].Duration_Minutes = [s |-> 45, ns |-> 0]

\* C6: on a frame of no records (no data rows, or none kept) the run raises
\* nothing and goes on to its end, the widgets giving a complete date range
\* and no vessel search (their defaults among them).
C6_EmptyFrameRunsThrough ==
    (Loaded /\ df = <<>>) =>
      /\ pc = "sidebar" => raised = "none"
      /\ (pc \notin {"sidebar", "stopped"} /\ Len(widgets.date_range) = 2
            /\ widgets.vessel_search = <<>>)
         => /\ raised = "none"
            /\ pc = "done" \/ ENABLED Next
      /\ (pc = "stopped" /\ widgets # None)
         => Len(widgets.date_range) < 2 \/ widgets.vessel_search # <<>>
      /\ pc = "stopped" => widgets # None

C6_Witness ==
    /\ pc = "done"
    /\ xlsx = <<>>
    /\ df = <<>>
    /\ widgets = DefaultWidgets(df, DateOf(now))
    /\ widgets.duration_range = <<0, 60>>
    /\ raised = "none"

ExplicitEmptyState(v) == v.kind \in {"info", "text"}

\* C7: when no record is displayed, the average and the total lift time and
\* each of the five tabs show an explicit empty-result state.
C7_EmptyStateEverywhere ==
    (pc = "done" /\ filtered_df = <<>>) =>
      /\ ExplicitEmptyState(metrics.col2)
      /\ ExplicitEmptyState(metrics.col3)
      /\ \A n \in 1..5 : ExplicitEmptyState(tabs[n])

\* the filter's other conditions, on the raw row and the parsed duration
OtherConditions(r) ==
    /\ DateOf(r.Start_Time) >= widgets.date_range[1]
    /\ DateOf(r.Start_Time) <= widgets.date_range[2]
    /\ MinutesGeq(r.Duration_Minutes, widgets.duration_range[1])
    /\ MinutesLeq(r.Duration_Minutes, widgets.duration_range[2])
    /\ widgets.vessel_search # <<>> => Contains(Raw(r).Vessel, widgets.vessel_search)

\* C8: a record's Direction is the raw cell as read; the direction filter
\* keeps a record exactly if that raw value is one of those selected, and
\* the direction chart has one group per distinct raw value.
C8_DirectionVerbatim ==
    /\ Loaded => \A k \in DOMAIN df : df[k].Direction = Raw(df[k]).Direction
    /\ Filtered =>
         /\ \A k \in DOMAIN filtered_df : filtered_df[k] \in Range(df)
         /\ \A k \in DOMAIN df :
               df[k] \in Range(filtered_df)
                 <=> (Raw(df[k]).Direction \in widgets.directions
                        /\ OtherConditions(df[k]))
    /\ (pc = "done" /\ filtered_df # <<>>) =>
         /\ DOMAIN tabs[3].dir_counts = {Raw(r).Direction : r \in Range(filtered_df)}
         /\ \A d \in DOMAIN tabs[3].dir_counts :
               tabs[3].dir_counts[d] =
                 Cardinality({k \in DOMAIN filtered_df :
                                Raw(filtered_df[k]).Direction = d})

\* "IN" selected and "in" not: the "in" record is filtered out
C8_Witness ==
    /\ pc = "done"
    /\ widgets.directions = {DirIN}
    /\ \E k \in DOMAIN df : df[k].Direction = DirIn
    /\ filtered_df # <<>>
    /\ DOMAIN tabs[3].dir_counts = {DirIN}

\* the prediction rows with a datetime that parsed and a Lift_Duration
SimUsable ==
    IF sim_file.ok
    THEN {i \in DOMAIN sim_file.rows :
            /\ sim_file.rows[i].datetime.kind = "datetime"
            /\ sim_file.rows[i].Lift_Duration.kind # "nan"}
    ELSE {}
SimUpcoming == {i \in SimUsable : sim_file.rows[i].datetime.ts > now.ts}
BannerDone == pc \notin {"sim", "next"}

\* the banner when there are usable rows
C9_BannerOnRows ==
    /\ SimUpcoming # {} =>
         /\ shown = <<"success">>
         /\ next_lift.idx \in SimUpcoming
         /\ next_lift.datetime.ts = sim_file.rows[next_lift.idx].datetime.ts
         /\ \A i \in SimUpcoming :
               next_lift.datetime.ts <= sim_file.rows[i].datetime.ts
    /\ (SimUsable # {} /\ SimUpcoming = {}) =>
         shown = <<"info">> /\ next_lift = None

\* C9 as stated: the soonest row strictly after now is shown; "No upcoming
\* lift" when rows exist and none is after now; nothing at all when loading
\* fails or leaves no rows; the run goes on to the historical data.
C9_NextLiftOrNothing ==
    BannerDone =>
      /\ C9_BannerOnRows
      /\ SimUsable = {} => shown = <<>> /\ next_lift = None
      /\ raised = "none" /\ pc # "stopped"

\* C9 amended: as stated, but a failed load shows the "Failed to load
\* simulated lift data" error (and no banner); nothing is shown only when
\* the file loads and leaves no rows.
C9_NextLiftOrErrorOrNothing ==
    BannerDone =>
      /\ C9_BannerOnRows
      /\ (sim_file.ok /\ SimUsable = {}) => shown = <<>> /\ next_lift = None
      /\ ~sim_file.ok => shown = <<"error">> /\ next_lift = None
      /\ raised = "none" /\ pc # "stopped"

\* a usable row at now itself is passed over for a later one
C9_Witness ==
    /\ BannerDone
    /\ \E i \in SimUsable : sim_file.rows[i].datetime.ts = now.ts
    /\ shown = <<"success">>
    /\ next_lift.datetime.ts > now.ts

\* C10: with every widget at its default the filter keeps every record.
C10_DefaultsKeepAll ==
    (Filtered /\ widgets = DefaultWidgets(df, DateOf(now))) => filtered_df = df

====
